---- MODULE Spec2Model ----
(***************************************************************************)
(* Model of the AccessNftContract credential registry (src/src/lib.rs).    *)
(*                                                                         *)
(* The contract keeps all of its state in the host key-value store, under  *)
(* the keys of the DataKey enum.  Every entry point runs as one host       *)
(* invocation: a panic (assert!, panic!, unwrap on None, a failing         *)
(* require_auth) aborts the invocation and the host discards its writes.   *)
(*                                                                         *)
(* Option<T> is modelled as a sequence of length at most one:              *)
(* None == << >> and Some(x) == <<x>>.                                     *)
(***************************************************************************)
EXTENDS Integers, Sequences, FiniteSets, TLC

\* ---------------------------------------------------------------- bounds
NumAddresses == 2
MaxTimestamp == 1

Address == 1..NumAddresses
Timestamp == 0..MaxTimestamp

\* Symbol values, written as the sequence of their character codes:
\* the symbols the tests pass, Symbol::short("Name"), ("Desc") and ("Img").
NameSymbols == {<<78, 97, 109, 101>>}
DescSymbols == {<<68, 101, 115, 99>>}
ImageSymbols == {<<73, 109, 103>>}

\* ---------------------------------------------------------------- Option
None == << >>
Some(x) == <<x>>
IsSome(o) == Len(o) = 1
Unwrap(o) == o[1]

\* ---------------------------------------------------------------- DataKey
KeyAdmin == <<"Admin">>
KeyNftOwner(id) == <<"NftOwner", id>>
KeyOwnerNft(addr) == <<"OwnerNft", addr>>
KeyNftMetadata(id) == <<"NftMetadata", id>>

\* NftMetadata struct
NftMetadata(name, description, image_url, is_active) ==
    [name |-> name, description |-> description,
     image_url |-> image_url, is_active |-> is_active]

VARIABLES
    storage,      \* env.storage(): a function from the keys present to values
    timestamp,    \* env.ledger().timestamp()
    last,         \* the most recent invocation: entry point, inputs, outcome
    before,       \* the store as it was when the most recent invocation began
    frame         \* the invocation in progress, when its store accesses are
                  \* followed one at a time (StepSpec); idle otherwise

vars == <<storage, timestamp, last, before, frame>>

\* ---------------------------------------------------------------- storage
Has(st, key) == key \in DOMAIN st
Get(st, key) == IF key \in DOMAIN st THEN Some(st[key]) ELSE None
Set(st, key, val) == [k \in (DOMAIN st) \cup {key} |-> IF k = key THEN val ELSE st[k]]

\* ---------------------------------------------------------------- hashing
\* u64::to_be_bytes: eight bytes, most significant first.
RECURSIVE BeBytes(_, _)
BeBytes(n, width) ==
    IF width = 0 THEN << >>
    ELSE Append(BeBytes(n \div 256, width - 1), n % 256)

ToBeBytes(ts) == BeBytes(ts, 8)

\* Address::serialize: a fixed-width encoding of the address.
Serialize(addr) == <<addr>>

\* Symbol::to_bytes: the characters of the symbol.
SymbolToBytes(sym) == sym

\* (a, b, c).concat()
Concat(a, b, c) == a \o b \o c

\* env.crypto().sha256: a collision-resistant digest, modelled symbolically
\* as an injective constructor over its preimage.
Sha256(bytes) == <<"sha256", bytes>>

\* An NFT id derived from name and timestamp only.
NftIdPreimageNoOwner(to, name, ts) ==
    Concat(<< >>, SymbolToBytes(name), ToBeBytes(ts))

\* The preimage of the NFT id.
NftIdPreimage(to, name, ts) ==
    Concat(Serialize(to), SymbolToBytes(name), ToBeBytes(ts))

NftId(to, name, ts) == Sha256(NftIdPreimage(to, name, ts))

\* ---------------------------------------------------------------- auth
\* require_auth that lets every caller through.
RequireAuthAlways(addr, caller) == TRUE

\* Address::require_auth: passes iff the invocation carries the
\* authorization of that address.
RequireAuth(addr, caller) == caller = addr

\* ---------------------------------------------------------------- outcomes
Ok == "Ok"
AlreadyInitialized == "AlreadyInitialized"      \* assert!(.., "Already initialized")
Unauthorized == "Unauthorized"                  \* admin.require_auth() fails
AlreadyHasCredential == "AlreadyHasCredential"  \* panic!("User already owns an NFT")
NoCredential == "NoCredential"                  \* panic!("User does not own an NFT")
MissingValue == "MissingValue"                  \* get_unchecked(..).unwrap() on an absent key

Call(op, caller, user, args, result, ret) ==
    [op |-> op, caller |-> caller, user |-> user, args |-> args,
     result |-> result, ret |-> ret]

\* ---------------------------------------------------------------- views
Admin(st) == Get(st, KeyAdmin)
OwnerNft(st, addr) == Get(st, KeyOwnerNft(addr))
NftOwner(st, id) == Get(st, KeyNftOwner(id))
Metadata(st, id) == Get(st, KeyNftMetadata(id))

\* The three privileged entry points.
Privileged == {"mint_nft", "revoke_nft", "reactivate_nft"}

\* No invocation in progress.
Idle == [pc |-> 0, op |-> "none", caller |-> 0, user |-> 0, args |-> << >>,
         entry |-> << >>, log |-> << >>, result |-> Ok,
         admin |-> 0, id |-> << >>, meta |-> << >>]

Init ==
    /\ storage = << >>
    /\ timestamp = 0
    /\ last = Call("none", 0, 0, << >>, Ok, << >>)
    /\ before = << >>
    /\ frame = Idle

\* ---------------------------------------------------------------- initialize
\* initialize without its assert!.
InitializeResultUnguarded(st) == Ok

InitializeResult(st) ==
    IF Has(st, KeyAdmin) THEN AlreadyInitialized ELSE Ok

\* initialize whose write does not depend on the assert!.
InitializeStorageAlways(st, admin) == Set(st, KeyAdmin, admin)

InitializeStorage(st, admin) ==
    IF InitializeResult(st) = Ok THEN Set(st, KeyAdmin, admin) ELSE st

\* initialize that asks for the authorization of the admin it is given.
initialize_with_auth ==
    \E caller \in Address, admin \in Address :
        LET result == IF Has(storage, KeyAdmin) THEN AlreadyInitialized
                      ELSE IF caller # admin THEN Unauthorized ELSE Ok IN
        /\ storage' = IF result = Ok THEN Set(storage, KeyAdmin, admin) ELSE storage
        /\ last' = Call("initialize", caller, admin, << >>, result, << >>)
        /\ before' = storage
        /\ UNCHANGED <<timestamp, frame>>

initialize ==
    \E caller \in Address, admin \in Address :
        /\ storage' = InitializeStorage(storage, admin)
        /\ last' = Call("initialize", caller, admin, << >>,
                        InitializeResult(storage), << >>)
        /\ before' = storage
        /\ UNCHANGED <<timestamp, frame>>

\* ---------------------------------------------------------------- mint_nft
\* mint_nft without the one-NFT-per-user check.
MintResultNoUniqueness(st, caller, to) ==
    IF ~Has(st, KeyAdmin) THEN MissingValue
    ELSE IF ~(caller = st[KeyAdmin]) THEN Unauthorized
    ELSE Ok

\* mint_nft that checks the one-NFT-per-user rule before the authorization.
MintResultUniquenessFirst(st, caller, to) ==
    IF ~Has(st, KeyAdmin) THEN MissingValue
    ELSE IF Has(st, KeyOwnerNft(to)) THEN AlreadyHasCredential
    ELSE IF ~(caller = st[KeyAdmin]) THEN Unauthorized
    ELSE Ok

\* mint_nft that skips the authorization when no admin is stored.
MintResultNoAdminCheck(st, caller, to) ==
    IF Has(st, KeyAdmin) /\ ~(caller = st[KeyAdmin]) THEN Unauthorized
    ELSE IF Has(st, KeyOwnerNft(to)) THEN AlreadyHasCredential
    ELSE Ok

MintResult(st, caller, to) ==
    IF ~Has(st, KeyAdmin) THEN MissingValue
    ELSE IF ~RequireAuth(Unwrap(Admin(st)), caller) THEN Unauthorized
    ELSE IF Has(st, KeyOwnerNft(to)) THEN AlreadyHasCredential
    ELSE Ok

\* mint_nft without the NftOwner write.
MintWritesNoOwner(st, to, name, description, image_url, id) ==
    LET s2 == Set(st, KeyOwnerNft(to), id)
        meta == NftMetadata(name, description, image_url, TRUE)
    IN  Set(s2, KeyNftMetadata(id), meta)

\* mint_nft that stores name and description in each other's field.
MintWritesSwapped(st, to, name, description, image_url, id) ==
    LET s1 == Set(st, KeyNftOwner(id), to)
        s2 == Set(s1, KeyOwnerNft(to), id)
        meta == NftMetadata(description, name, image_url, TRUE)
    IN  Set(s2, KeyNftMetadata(id), meta)

\* mint_nft without the NftMetadata write.
MintWritesNoMetadata(st, to, name, description, image_url, id) ==
    LET s1 == Set(st, KeyNftOwner(id), to)
    IN  Set(s1, KeyOwnerNft(to), id)

MintWrites(st, to, name, description, image_url, id) ==
    LET s1 == Set(st, KeyNftOwner(id), to)
        s2 == Set(s1, KeyOwnerNft(to), id)
        meta == NftMetadata(name, description, image_url, TRUE)
    IN  Set(s2, KeyNftMetadata(id), meta)

MintStorage(st, caller, to, name, description, image_url, ts) ==
    IF MintResult(st, caller, to) = Ok
    THEN MintWrites(st, to, name, description, image_url, NftId(to, name, ts))
    ELSE st

mint_nft ==
    \E caller \in Address, to \in Address, name \in NameSymbols,
       description \in DescSymbols, image_url \in ImageSymbols :
        LET result == MintResult(storage, caller, to) IN
        /\ storage' = MintStorage(storage, caller, to, name, description,
                                  image_url, timestamp)
        /\ last' = Call("mint_nft", caller, to,
                        <<name, description, image_url, timestamp>>, result,
                        IF result = Ok THEN Some(NftId(to, name, timestamp))
                        ELSE None)
        /\ before' = storage
        /\ UNCHANGED <<timestamp, frame>>

\* ---------------------------------------------------------------- has_access
HasAccessResult(st, user) ==
    IF IsSome(OwnerNft(st, user)) /\ ~Has(st, KeyNftMetadata(Unwrap(OwnerNft(st, user))))
    THEN MissingValue ELSE Ok

\* has_access that answers on existence instead of liveness.
HasAccessIgnoresActive(st, user) == IsSome(OwnerNft(st, user))

HasAccess(st, user) ==
    IF IsSome(OwnerNft(st, user))
    THEN st[KeyNftMetadata(Unwrap(OwnerNft(st, user)))].is_active
    ELSE FALSE

has_access ==
    \E user \in Address :
        LET result == HasAccessResult(storage, user) IN
        /\ last' = Call("has_access", 0, user, << >>, result,
                        IF result = Ok THEN Some(HasAccess(storage, user))
                        ELSE None)
        /\ before' = storage
        /\ UNCHANGED <<storage, timestamp, frame>>

\* ---------------------------------------------------------------- get_nft_metadata
\* get_nft_metadata that hides a revoked credential.
GetNftMetadataActiveOnly(st, user) ==
    IF IsSome(OwnerNft(st, user))
       /\ Has(st, KeyNftMetadata(Unwrap(OwnerNft(st, user))))
       /\ st[KeyNftMetadata(Unwrap(OwnerNft(st, user)))].is_active
    THEN Get(st, KeyNftMetadata(Unwrap(OwnerNft(st, user))))
    ELSE None

GetNftMetadata(st, user) ==
    IF IsSome(OwnerNft(st, user))
    THEN Get(st, KeyNftMetadata(Unwrap(OwnerNft(st, user))))
    ELSE None

get_nft_metadata ==
    \E user \in Address :
        /\ last' = Call("get_nft_metadata", 0, user, << >>, Ok,
                        Some(GetNftMetadata(storage, user)))
        /\ before' = storage
        /\ UNCHANGED <<storage, timestamp, frame>>

\* ---------------------------------------------------------------- revoke_nft / reactivate_nft
\* The two entry points differ only in the value written to is_active.
\* revoke_nft / reactivate_nft whose else branch does not panic.
SetActiveResultSilent(st, caller, user) ==
    IF ~Has(st, KeyAdmin) THEN MissingValue
    ELSE IF ~(caller = st[KeyAdmin]) THEN Unauthorized
    ELSE IF IsSome(OwnerNft(st, user))
            /\ ~Has(st, KeyNftMetadata(Unwrap(OwnerNft(st, user)))) THEN MissingValue
    ELSE Ok

SetActiveResult(st, caller, user) ==
    IF ~Has(st, KeyAdmin) THEN MissingValue
    ELSE IF ~RequireAuth(Unwrap(Admin(st)), caller) THEN Unauthorized
    ELSE IF ~IsSome(OwnerNft(st, user)) THEN NoCredential
    ELSE IF ~Has(st, KeyNftMetadata(Unwrap(OwnerNft(st, user)))) THEN MissingValue
    ELSE Ok

\* A write of is_active that reaches the metadata record of every token.
SetActiveWritesAll(st, user, active) ==
    [k \in DOMAIN st |->
        IF k[1] = "NftMetadata" THEN [st[k] EXCEPT !.is_active = active]
        ELSE st[k]]

\* The body of the `if let Some(id)` branch; the else branch only panics.
SetActiveWrites(st, user, active) ==
    IF IsSome(OwnerNft(st, user))
    THEN LET id == Unwrap(OwnerNft(st, user))
             meta == [st[KeyNftMetadata(id)] EXCEPT !.is_active = active]
         IN  Set(st, KeyNftMetadata(id), meta)
    ELSE st

\* revoke_nft that writes nothing.
RevokeStorageNoop(st, caller, user) == st

\* revoke_nft that removes the identity's binding instead of clearing the flag.
RevokeStorageDeletes(st, caller, user) ==
    IF SetActiveResult(st, caller, user) = Ok
    THEN [k \in (DOMAIN st) \ {KeyOwnerNft(user)} |-> st[k]]
    ELSE st

\* revoke_nft that flips the flag instead of clearing it.
RevokeStorageToggle(st, caller, user) ==
    IF SetActiveResult(st, caller, user) = Ok
    THEN SetActiveWrites(st, user,
                         ~st[KeyNftMetadata(Unwrap(OwnerNft(st, user)))].is_active)
    ELSE st

RevokeStorage(st, caller, user) ==
    IF SetActiveResult(st, caller, user) = Ok
    THEN SetActiveWrites(st, user, FALSE) ELSE st

\* reactivate_nft whose write does not depend on the authorization.
ReactivateStorageUnchecked(st, caller, user) ==
    IF /\ Has(st, KeyAdmin)
       /\ IsSome(OwnerNft(st, user))
       /\ Has(st, KeyNftMetadata(Unwrap(OwnerNft(st, user))))
    THEN SetActiveWrites(st, user, TRUE) ELSE st

ReactivateStorage(st, caller, user) ==
    IF SetActiveResult(st, caller, user) = Ok
    THEN SetActiveWrites(st, user, TRUE) ELSE st

revoke_nft ==
    \E caller \in Address, user \in Address :
        /\ storage' = RevokeStorage(storage, caller, user)
        /\ last' = Call("revoke_nft", caller, user, << >>,
                        SetActiveResult(storage, caller, user), << >>)
        /\ before' = storage
        /\ UNCHANGED <<timestamp, frame>>

reactivate_nft ==
    \E caller \in Address, user \in Address :
        /\ storage' = ReactivateStorage(storage, caller, user)
        /\ last' = Call("reactivate_nft", caller, user, << >>,
                        SetActiveResult(storage, caller, user), << >>)
        /\ before' = storage
        /\ UNCHANGED <<timestamp, frame>>

\* ---------------------------------------------------------------- ledger
advance_ledger ==
    /\ timestamp < MaxTimestamp
    /\ timestamp' = timestamp + 1
    /\ last' = Call("ledger", 0, 0, << >>, Ok, << >>)
    /\ before' = storage
    /\ UNCHANGED <<storage, frame>>

Next ==
    \/ initialize
    \/ mint_nft
    \/ has_access
    \/ get_nft_metadata
    \/ revoke_nft
    \/ reactivate_nft
    \/ advance_ledger

Spec == Init /\ [][Next]_vars

\* ================================================================ store accesses
\* The privileged entry points followed one statement at a time.  frame.pc is
\* the position in the entry point's statement list (0: not running),
\* frame.entry the store when the invocation began, frame.log the statements
\* executed so far, frame.admin, frame.id and frame.meta the locals.  A panic
\* ends the invocation and the host restores the store of its beginning; a
\* return keeps the writes.

\* mint_nft with the write of NftOwner ahead of the one-NFT-per-user check.
MintProgramWriteFirst ==
    <<"get_admin", "require_auth", "derive_id", "set_nft_owner",
      "has_owner_nft", "set_owner_nft", "set_new_metadata">>

\* The statements of mint_nft, lines 42 to 62.
MintProgram ==
    <<"get_admin", "require_auth", "has_owner_nft", "derive_id",
      "set_nft_owner", "set_owner_nft", "set_new_metadata">>

\* The statements of revoke_nft and reactivate_nft, lines 88 to 94.
SetActiveProgram ==
    <<"get_admin", "require_auth", "get_owner_nft", "get_metadata",
      "assign_is_active", "set_metadata">>

Program(op) == IF op = "mint_nft" THEN MintProgram ELSE SetActiveProgram

\* What a statement does to the store: "read", "write", "auth" (require_auth),
\* "local" (no store access) or "end" (return, panic).
Kind(label) ==
    IF label \in {"get_admin", "has_owner_nft", "get_owner_nft", "get_metadata"}
    THEN "read"
    ELSE IF label \in {"set_nft_owner", "set_owner_nft", "set_new_metadata",
                       "set_metadata"}
    THEN "write"
    ELSE IF label = "require_auth" THEN "auth"
    ELSE IF label \in {"return", "panic"} THEN "end"
    ELSE "local"

Running == frame.pc > 0

At(label) ==
    /\ Running
    /\ frame.pc <= Len(Program(frame.op))
    /\ Program(frame.op)[frame.pc] = label

\* The statement ran and control passes to the next one.
Cont(f, label) == [f EXCEPT !.pc = f.pc + 1, !.log = Append(f.log, label)]

\* The statement panicked: the invocation ends and its writes are discarded.
Panic(label, result) ==
    /\ frame' = [frame EXCEPT !.pc = 0, !.result = result,
                              !.log = Append(Append(frame.log, label), "panic")]
    /\ storage' = frame.entry

step_call ==
    /\ ~Running
    /\ \E op \in Privileged, caller \in Address, user \in Address,
          name \in NameSymbols, description \in DescSymbols,
          image_url \in ImageSymbols :
        frame' = [Idle EXCEPT !.pc = 1, !.op = op, !.caller = caller,
                              !.user = user, !.entry = storage,
                              !.args = IF op = "mint_nft"
                                       THEN <<name, description, image_url>>
                                       ELSE << >>]
    /\ UNCHANGED <<storage, timestamp, last, before>>

\* let admin: Address = env.storage().get_unchecked(&DataKey::Admin).unwrap();
step_get_admin ==
    /\ At("get_admin")
    /\ IF Has(storage, KeyAdmin)
       THEN /\ frame' = [Cont(frame, "get_admin") EXCEPT !.admin = storage[KeyAdmin]]
            /\ UNCHANGED storage
       ELSE Panic("get_admin", MissingValue)
    /\ UNCHANGED <<timestamp, last, before>>

\* admin.require_auth();
step_require_auth ==
    /\ At("require_auth")
    /\ IF RequireAuth(frame.admin, frame.caller)
       THEN frame' = Cont(frame, "require_auth") /\ UNCHANGED storage
       ELSE Panic("require_auth", Unauthorized)
    /\ UNCHANGED <<timestamp, last, before>>

\* if env.storage().has(&DataKey::OwnerNft(to.clone())) { panic!(..) }
step_has_owner_nft ==
    /\ At("has_owner_nft")
    /\ IF Has(storage, KeyOwnerNft(frame.user))
       THEN Panic("has_owner_nft", AlreadyHasCredential)
       ELSE frame' = Cont(frame, "has_owner_nft") /\ UNCHANGED storage
    /\ UNCHANGED <<timestamp, last, before>>

\* let id = env.crypto().sha256(..);
step_derive_id ==
    /\ At("derive_id")
    /\ frame' = [Cont(frame, "derive_id") EXCEPT
                   !.id = NftId(frame.user, frame.args[1], timestamp)]
    /\ UNCHANGED <<storage, timestamp, last, before>>

\* env.storage().set(&DataKey::NftOwner(id.clone()), &to);
step_set_nft_owner ==
    /\ At("set_nft_owner")
    /\ storage' = Set(storage, KeyNftOwner(frame.id), frame.user)
    /\ frame' = Cont(frame, "set_nft_owner")
    /\ UNCHANGED <<timestamp, last, before>>

\* env.storage().set(&DataKey::OwnerNft(to.clone()), &id);
step_set_owner_nft ==
    /\ At("set_owner_nft")
    /\ storage' = Set(storage, KeyOwnerNft(frame.user), frame.id)
    /\ frame' = Cont(frame, "set_owner_nft")
    /\ UNCHANGED <<timestamp, last, before>>

\* let meta = NftMetadata { .. }; env.storage().set(&DataKey::NftMetadata(..), &meta);
step_set_new_metadata ==
    /\ At("set_new_metadata")
    /\ storage' = Set(storage, KeyNftMetadata(frame.id),
                      NftMetadata(frame.args[1], frame.args[2], frame.args[3], TRUE))
    /\ frame' = Cont(frame, "set_new_metadata")
    /\ UNCHANGED <<timestamp, last, before>>

\* if let Some(id) = env.storage().get(&DataKey::OwnerNft(user.clone())) .. else panic!
step_get_owner_nft ==
    /\ At("get_owner_nft")
    /\ IF IsSome(OwnerNft(storage, frame.user))
       THEN /\ frame' = [Cont(frame, "get_owner_nft") EXCEPT
                           !.id = Unwrap(OwnerNft(storage, frame.user))]
            /\ UNCHANGED storage
       ELSE Panic("get_owner_nft", NoCredential)
    /\ UNCHANGED <<timestamp, last, before>>

\* let mut meta = env.storage().get_unchecked(&DataKey::NftMetadata(..)).unwrap();
step_get_metadata ==
    /\ At("get_metadata")
    /\ IF Has(storage, KeyNftMetadata(frame.id))
       THEN /\ frame' = [Cont(frame, "get_metadata") EXCEPT
                           !.meta = storage[KeyNftMetadata(frame.id)]]
            /\ UNCHANGED storage
       ELSE Panic("get_metadata", MissingValue)
    /\ UNCHANGED <<timestamp, last, before>>

\* meta.is_active = false;  (true in reactivate_nft)
step_assign_is_active ==
    /\ At("assign_is_active")
    /\ frame' = [Cont(frame, "assign_is_active") EXCEPT
                   !.meta = [frame.meta EXCEPT
                               !.is_active = (frame.op = "reactivate_nft")]]
    /\ UNCHANGED <<storage, timestamp, last, before>>

\* env.storage().set(&DataKey::NftMetadata(id), &meta);
step_set_metadata ==
    /\ At("set_metadata")
    /\ storage' = Set(storage, KeyNftMetadata(frame.id), frame.meta)
    /\ frame' = Cont(frame, "set_metadata")
    /\ UNCHANGED <<timestamp, last, before>>

\* The end of the entry point: the invocation's writes stay.
step_return ==
    /\ Running
    /\ frame.pc = Len(Program(frame.op)) + 1
    /\ frame' = [frame EXCEPT !.pc = 0, !.result = Ok,
                              !.log = Append(frame.log, "return")]
    /\ UNCHANGED <<storage, timestamp, last, before>>

\* initialize, between two privileged invocations.
step_initialize ==
    /\ ~Running
    /\ \E admin \in Address : storage' = InitializeStorage(storage, admin)
    /\ frame' = Idle
    /\ UNCHANGED <<timestamp, last, before>>

\* The ledger closes, between two invocations.
step_advance_ledger ==
    /\ ~Running
    /\ timestamp < MaxTimestamp
    /\ timestamp' = timestamp + 1
    /\ frame' = Idle
    /\ UNCHANGED <<storage, last, before>>

StepNext ==
    \/ step_call
    \/ step_get_admin
    \/ step_require_auth
    \/ step_has_owner_nft
    \/ step_derive_id
    \/ step_set_nft_owner
    \/ step_set_owner_nft
    \/ step_set_new_metadata
    \/ step_get_owner_nft
    \/ step_get_metadata
    \/ step_assign_is_active
    \/ step_set_metadata
    \/ step_return
    \/ step_initialize
    \/ step_advance_ledger

StepSpec == Init /\ [][StepNext]_vars

\* ================================================================ properties
\* The stored admin of a state in which one is stored.
AdminOf(st) == Unwrap(Admin(st))

\* The token bound to an identity that has one.
TokenOf(st, user) == Unwrap(OwnerNft(st, user))

\* name, description and image_url of a metadata record.
StaticFields(meta) == <<meta.name, meta.description, meta.image_url>>

\* C1 (single admin): whenever an admin is already stored, a call to
\* initialize, with any admin argument, fails with AlreadyInitialized and the
\* whole store after the call equals the store before it.
C1_SingleAdmin ==
    [][(last'.op = "initialize" /\ Has(storage, KeyAdmin))
         => (last'.result = AlreadyInitialized /\ storage' = storage)]_vars

\* A second initialize, naming another admin, has been rejected.
C1_Witness ==
    /\ last.op = "initialize"
    /\ last.result = AlreadyInitialized
    /\ Has(storage, KeyAdmin)
    /\ \E i \in Address : IsSome(OwnerNft(storage, i))

\* C2 (single credential per identity): a mint_nft by the authenticated admin
\* for an identity that already has a bound token fails with
\* AlreadyHasCredential, whether the token is active or revoked, and leaves
\* the store (metadata and both bindings) unchanged.
C2_SingleCredential ==
    [][(/\ last'.op = "mint_nft"
        /\ Has(storage, KeyAdmin)
        /\ last'.caller = AdminOf(storage)
        /\ IsSome(OwnerNft(storage, last'.user)))
         => (last'.result = AlreadyHasCredential /\ storage' = storage)]_vars

\* A later mint for an identity whose credential was revoked in between, at a
\* timestamp other than the one of the first mint, has been rejected.
C2_Witness ==
    /\ last.op = "mint_nft"
    /\ last.result = AlreadyHasCredential
    /\ IsSome(OwnerNft(storage, last.user))
    /\ ~HasAccess(storage, last.user)
    /\ TokenOf(storage, last.user) # NftId(last.user, last.args[1], last.args[4])

\* C3 (unauthorized rejection): on an initialized registry, mint_nft,
\* revoke_nft and reactivate_nft called by a caller that does not authenticate
\* as the stored admin fail with Unauthorized and leave the store unchanged.
C3_UnauthorizedRejection ==
    [][(/\ last'.op \in {"mint_nft", "revoke_nft", "reactivate_nft"}
        /\ Has(storage, KeyAdmin)
        /\ last'.caller # AdminOf(storage))
         => (last'.result = Unauthorized /\ storage' = storage)]_vars

\* A non-admin caller tried to reactivate a revoked credential and was
\* rejected.
C3_Witness ==
    /\ last.op = "reactivate_nft"
    /\ last.result = Unauthorized
    /\ Has(storage, KeyAdmin)
    /\ last.caller # AdminOf(storage)
    /\ IsSome(OwnerNft(storage, last.user))
    /\ ~HasAccess(storage, last.user)

\* C4 (access reflects liveness): right after a successful mint_nft for an
\* identity has_access is true and the metadata carries the name, description
\* and image given; after a successful revoke_nft it is false; after a
\* successful reactivate_nft it is true; and revoke_nft and reactivate_nft
\* leave name, description and image_url returned by get_nft_metadata as they
\* were.
C4_AccessReflectsLiveness ==
    [][/\ (last'.op = "mint_nft" /\ last'.result = Ok)
            => /\ HasAccessResult(storage', last'.user) = Ok
               /\ HasAccess(storage', last'.user)
               /\ IsSome(GetNftMetadata(storage', last'.user))
               /\ StaticFields(Unwrap(GetNftMetadata(storage', last'.user)))
                    = SubSeq(last'.args, 1, 3)
       /\ (last'.op \in {"revoke_nft", "reactivate_nft"} /\ last'.result = Ok)
            => /\ HasAccessResult(storage', last'.user) = Ok
               /\ HasAccess(storage', last'.user) = (last'.op = "reactivate_nft")
               /\ IsSome(GetNftMetadata(storage, last'.user))
               /\ IsSome(GetNftMetadata(storage', last'.user))
               /\ StaticFields(Unwrap(GetNftMetadata(storage', last'.user)))
                    = StaticFields(Unwrap(GetNftMetadata(storage, last'.user)))
      ]_vars

\* A credential minted at an earlier timestamp has been revoked: access is
\* gone while the credential exists.
C4_Witness ==
    /\ last.op = "revoke_nft"
    /\ last.result = Ok
    /\ ~HasAccess(storage, last.user)
    /\ IsSome(GetNftMetadata(storage, last.user))
    /\ timestamp > 0
    /\ last.user # AdminOf(storage)

\* C5: in every reachable state, the uninitialized one included, has_access
\* completes without error for every identity and returns true iff the
\* identity has a bound token whose metadata record has is_active = TRUE; it
\* returns false for an identity with no credential.
C5_HasAccess ==
    /\ \A user \in Address :
        /\ HasAccessResult(storage, user) = Ok
        /\ HasAccess(storage, user)
             <=> /\ Has(storage, KeyOwnerNft(user))
                 /\ Has(storage, KeyNftMetadata(storage[KeyOwnerNft(user)]))
                 /\ storage[KeyNftMetadata(storage[KeyOwnerNft(user)])].is_active
        /\ ~Has(storage, KeyOwnerNft(user)) => ~HasAccess(storage, user)
    /\ last.op = "has_access"
         => /\ last.result = Ok
            /\ last.ret = Some(HasAccess(storage, last.user))

\* has_access answered false for a revoked credential.
C5_Witness ==
    /\ last.op = "has_access"
    /\ last.ret = Some(FALSE)
    /\ Has(storage, KeyOwnerNft(last.user))
    /\ \E other \in Address : ~Has(storage, KeyOwnerNft(other))

\* C6: when the caller authenticates as the admin and the target identity has
\* no bound credential, revoke_nft and reactivate_nft fail with NoCredential
\* and leave the store unchanged: no record is created for that identity.
C6_NoCredential ==
    [][(/\ last'.op \in {"revoke_nft", "reactivate_nft"}
        /\ Has(storage, KeyAdmin)
        /\ last'.caller = AdminOf(storage)
        /\ ~IsSome(OwnerNft(storage, last'.user)))
         => /\ last'.result = NoCredential
            /\ storage' = storage
            /\ ~Has(storage', KeyOwnerNft(last'.user))]_vars

\* The admin tried to revoke an identity that holds no credential.
C6_Witness ==
    /\ last.op = "revoke_nft"
    /\ last.result = NoCredential
    /\ Has(storage, KeyAdmin)
    /\ last.caller = AdminOf(storage)
    /\ ~Has(storage, KeyOwnerNft(last.user))

\* C7 (ownership binding): in every reachable state, every identity with a
\* forward binding identity -> token has the backward binding token -> owner,
\* and it names that identity.  (The store keeps one value per key, so an
\* identity has at most one token.)
C7_OwnershipBinding ==
    \A i \in Address :
        IsSome(OwnerNft(storage, i))
            => NftOwner(storage, TokenOf(storage, i)) = Some(i)

\* Every identity is bound, one of them revoked.
C7_Witness ==
    /\ \A i \in Address : IsSome(OwnerNft(storage, i))
    /\ \E i \in Address : ~HasAccess(storage, i)

\* C8 (issuance uniqueness): the ids derived for two distinct identities with
\* the same name at the same timestamp differ, and in every reachable state
\* no token id is bound to two identities.
C8_IssuanceUniqueness ==
    /\ \A a, b \in Address, name \in NameSymbols, ts \in Timestamp :
        a # b => NftId(a, name, ts) # NftId(b, name, ts)
    /\ \A a, b \in Address :
        (a # b /\ IsSome(OwnerNft(storage, a)) /\ IsSome(OwnerNft(storage, b)))
            => /\ TokenOf(storage, a) # TokenOf(storage, b)
               /\ NftOwner(storage, TokenOf(storage, a)) # Some(b)

\* Two distinct identities hold credentials minted with the same name at the
\* same timestamp.
C8_Witness ==
    \E a, b \in Address, name \in NameSymbols, ts \in Timestamp :
        /\ a # b
        /\ OwnerNft(storage, a) = Some(NftId(a, name, ts))
        /\ OwnerNft(storage, b) = Some(NftId(b, name, ts))

\* C9 (admin immutability): once an admin is stored, the stored admin is the
\* same in every later state, whatever call follows.
C9_AdminImmutable ==
    [][Has(storage, KeyAdmin) => Admin(storage') = Admin(storage)]_vars

\* An initialize naming another identity came after the admin was set, and
\* the admin is still the first one.
C9_Witness ==
    /\ last.op = "initialize"
    /\ Has(storage, KeyAdmin)
    /\ last.user # AdminOf(storage)

\* C10 (no deletion): once an identity is bound to a token, in every later
\* state it is bound to the same token, the token's owner is that identity and
\* the token's metadata record exists; a revoke_nft removes no record and
\* changes no field other than is_active.
C10_NoDeletion ==
    [][/\ \A i \in Address :
            IsSome(OwnerNft(storage, i))
                => /\ OwnerNft(storage', i) = OwnerNft(storage, i)
                   /\ NftOwner(storage', TokenOf(storage, i)) = Some(i)
                   /\ IsSome(Metadata(storage', TokenOf(storage, i)))
       /\ last'.op = "revoke_nft"
            => /\ DOMAIN storage' = DOMAIN storage
               /\ \A k \in DOMAIN storage :
                    \/ storage'[k] = storage[k]
                    \/ /\ k[1] = "NftMetadata"
                       /\ storage'[k] = [storage[k] EXCEPT !.is_active = FALSE]
      ]_vars

\* A bound credential has been revoked and a later call has run.
C10_Witness ==
    /\ last.op = "get_nft_metadata"
    /\ IsSome(last.ret[1])
    /\ ~last.ret[1][1].is_active
    /\ NftOwner(storage, TokenOf(storage, last.user)) = Some(last.user)

\* The latest call was made by the stored admin of the store it ran on.
ByAdmin(st, call) == Has(st, KeyAdmin) /\ call.caller = st[KeyAdmin]

\* C11 (idempotence): a revoke_nft by the admin on an identity whose
\* credential is already inactive succeeds and leaves the store unchanged, and
\* a reactivate_nft by the admin on an identity whose credential is already
\* active succeeds and leaves the store unchanged.
C11_Idempotence ==
    [][/\ (/\ last'.op = "revoke_nft"
           /\ ByAdmin(storage, last')
           /\ IsSome(OwnerNft(storage, last'.user))
           /\ ~HasAccess(storage, last'.user))
            => (last'.result = Ok /\ storage' = storage)
       /\ (/\ last'.op = "reactivate_nft"
           /\ ByAdmin(storage, last')
           /\ IsSome(OwnerNft(storage, last'.user))
           /\ HasAccess(storage, last'.user))
            => (last'.result = Ok /\ storage' = storage)
      ]_vars

\* A revoke_nft of a credential that was already revoked has succeeded.
C11_Witness ==
    /\ last.op = "revoke_nft"
    /\ last.result = Ok
    /\ IsSome(OwnerNft(before, last.user))
    /\ ~HasAccess(before, last.user)
    /\ storage = before

\* C12 (frame of revoke / reactivate): a successful revoke_nft or
\* reactivate_nft adds and removes no key and changes no value except the
\* is_active flag of the token bound to its target, which becomes FALSE for
\* revoke_nft and TRUE for reactivate_nft.
C12_SetActiveFrame ==
    [][(last'.op \in {"revoke_nft", "reactivate_nft"} /\ last'.result = Ok)
         => /\ IsSome(OwnerNft(storage, last'.user))
            /\ DOMAIN storage' = DOMAIN storage
            /\ \A k \in DOMAIN storage :
                 IF k = KeyNftMetadata(TokenOf(storage, last'.user))
                 THEN storage'[k] = [storage[k] EXCEPT
                                       !.is_active = (last'.op = "reactivate_nft")]
                 ELSE storage'[k] = storage[k]
      ]_vars

\* A credential has been revoked while another identity holds an active one.
C12_Witness ==
    /\ last.op = "revoke_nft"
    /\ last.result = Ok
    /\ HasAccess(before, last.user)
    /\ ~HasAccess(storage, last.user)
    /\ \E other \in Address : other # last.user /\ HasAccess(storage, other)

\* C13: get_nft_metadata returns None, without error, exactly when the
\* identity has no bound token, and otherwise the metadata record of the bound
\* token whatever its is_active flag.
C13_GetMetadata ==
    /\ \A user \in Address :
        /\ GetNftMetadata(storage, user) = None <=> ~Has(storage, KeyOwnerNft(user))
        /\ Has(storage, KeyOwnerNft(user))
             => /\ Has(storage, KeyNftMetadata(storage[KeyOwnerNft(user)]))
                /\ GetNftMetadata(storage, user)
                     = Some(storage[KeyNftMetadata(storage[KeyOwnerNft(user)])])
    /\ last.op = "get_nft_metadata"
         => /\ last.result = Ok
            /\ last.ret = Some(GetNftMetadata(storage, last.user))

\* get_nft_metadata returned the record of a revoked credential, to which
\* has_access answers false.
C13_Witness ==
    /\ last.op = "get_nft_metadata"
    /\ IsSome(last.ret[1])
    /\ last.ret[1][1].is_active = FALSE
    /\ HasAccessResult(storage, last.user) = Ok
    /\ ~HasAccess(storage, last.user)
    /\ \E other \in Address : GetNftMetadata(storage, other) = None

\* The keys a mint_nft for `to` with id `id` writes.
MintKeys(to, id) == {KeyNftOwner(id), KeyOwnerNft(to), KeyNftMetadata(id)}

\* C14 (effect of a successful mint_nft): it returns the id derived from the
\* target, the name and the ledger timestamp; afterwards NftOwner(id) is the
\* target, OwnerNft(target) is the id and NftMetadata(id) is exactly (name,
\* description, image_url, is_active = TRUE); none of the three keys existed
\* before, no other key (the admin included) is added, removed or changed, and
\* in the resulting store owner, binding and metadata records come together.
C14_MintEffect ==
    [][(last'.op = "mint_nft" /\ last'.result = Ok)
         => LET to == last'.user
                id == NftId(to, last'.args[1], last'.args[4])
            IN  /\ last'.args[4] = timestamp
                /\ last'.ret = Some(id)
                /\ Get(storage', KeyNftOwner(id)) = Some(to)
                /\ Get(storage', KeyOwnerNft(to)) = Some(id)
                /\ Get(storage', KeyNftMetadata(id))
                     = Some(NftMetadata(last'.args[1], last'.args[2],
                                        last'.args[3], TRUE))
                /\ MintKeys(to, id) \cap DOMAIN storage = {}
                /\ DOMAIN storage' = DOMAIN storage \cup MintKeys(to, id)
                /\ \A k \in DOMAIN storage : storage'[k] = storage[k]
                /\ \A k \in DOMAIN storage' :
                     /\ k[1] = "NftOwner"
                          => /\ Has(storage', KeyNftMetadata(k[2]))
                             /\ Get(storage', KeyOwnerNft(storage'[k])) = Some(k[2])
                     /\ k[1] = "NftMetadata" => Has(storage', KeyNftOwner(k[2]))
      ]_vars

\* A mint_nft succeeded on a store that already held another identity's
\* credential.
C14_Witness ==
    /\ last.op = "mint_nft"
    /\ last.result = Ok
    /\ ~Has(before, KeyOwnerNft(last.user))
    /\ \E other \in Address : Has(before, KeyOwnerNft(other))
    /\ Has(storage, KeyOwnerNft(last.user))

\* C15 (error precedence): a caller that is not the admin gets Unauthorized,
\* not AlreadyHasCredential, from mint_nft for an identity that already holds
\* a credential, and Unauthorized, not NoCredential, from revoke_nft and
\* reactivate_nft for an identity that holds none.
C15_ErrorPrecedence ==
    [][/\ (/\ last'.op = "mint_nft"
           /\ Has(storage, KeyAdmin)
           /\ ~ByAdmin(storage, last')
           /\ Has(storage, KeyOwnerNft(last'.user)))
            => (last'.result = Unauthorized /\ last'.result # AlreadyHasCredential)
       /\ (/\ last'.op \in {"revoke_nft", "reactivate_nft"}
           /\ Has(storage, KeyAdmin)
           /\ ~ByAdmin(storage, last')
           /\ ~Has(storage, KeyOwnerNft(last'.user)))
            => (last'.result = Unauthorized /\ last'.result # NoCredential)
      ]_vars

\* A caller other than the admin asked for a second credential for an
\* identity and was told Unauthorized.
C15_Witness ==
    /\ last.op = "mint_nft"
    /\ last.result = Unauthorized
    /\ Has(before, KeyOwnerNft(last.user))
    /\ Has(before, KeyAdmin)

\* C16 (no resurrection without authorization): a binding or a record of a
\* token appears only in a successful mint_nft by the admin for that
\* identity; the is_active flag of an identity's token changes only in a
\* successful revoke_nft (to FALSE) or reactivate_nft (to TRUE) by the admin
\* for that identity; so has_access of an identity passes from false to true
\* only in a successful mint_nft or reactivate_nft by the admin for it.
C16_NoResurrection ==
    [][\A i \in Address :
        LET byAdminFor == /\ ByAdmin(storage, last')
                          /\ last'.result = Ok
                          /\ last'.user = i
        IN  /\ (~Has(storage, KeyOwnerNft(i)) /\ Has(storage', KeyOwnerNft(i)))
                 => (last'.op = "mint_nft" /\ byAdminFor)
            /\ (\E k \in (DOMAIN storage') \ (DOMAIN storage) :
                    k[1] \in {"NftOwner", "NftMetadata"})
                 => (last'.op = "mint_nft" /\ ByAdmin(storage, last')
                     /\ last'.result = Ok)
            /\ (/\ Has(storage, KeyOwnerNft(i))
                /\ Has(storage', KeyOwnerNft(i))
                /\ HasAccess(storage, i) # HasAccess(storage', i))
                 => /\ byAdminFor
                    /\ last'.op = IF HasAccess(storage', i)
                                  THEN "reactivate_nft" ELSE "revoke_nft"
            /\ (~HasAccess(storage, i) /\ HasAccess(storage', i))
                 => (last'.op \in {"mint_nft", "reactivate_nft"} /\ byAdminFor)
      ]_vars

\* A revoked credential has been reactivated.
C16_Witness ==
    /\ last.op = "reactivate_nft"
    /\ last.result = Ok
    /\ Has(before, KeyOwnerNft(last.user))
    /\ ~HasAccess(before, last.user)
    /\ HasAccess(storage, last.user)

\* C18 (metadata presence): in every reachable state every identity with an
\* OwnerNft binding, and every token with an NftOwner record, has an
\* NftMetadata record, so the unwrap of the metadata read in has_access,
\* revoke_nft and reactivate_nft never fails.
C18_MetadataPresence ==
    /\ \A i \in Address :
        Has(storage, KeyOwnerNft(i))
            => Has(storage, KeyNftMetadata(storage[KeyOwnerNft(i)]))
    /\ \A k \in DOMAIN storage :
        k[1] = "NftOwner" => Has(storage, KeyNftMetadata(k[2]))
    /\ \A user \in Address :
        /\ HasAccessResult(storage, user) = Ok
        /\ \A caller \in Address :
            Has(storage, KeyAdmin)
                => SetActiveResult(storage, caller, user) # MissingValue
    /\ (last.op \in {"has_access", "revoke_nft", "reactivate_nft"}
        /\ Has(storage, KeyAdmin))
         => last.result # MissingValue

\* has_access read the metadata of a credential while every identity holds
\* one.
C18_Witness ==
    /\ last.op = "has_access"
    /\ last.ret = Some(TRUE)
    /\ \A i \in Address : Has(storage, KeyOwnerNft(i))

\* C19 (uninitialized registry): while no admin is stored the store is empty
\* and mint_nft, revoke_nft and reactivate_nft fail on the read of the admin
\* record, for every caller and argument, without changing the store; so a
\* store that holds any record holds an admin.
C19_Uninitialized ==
    [][/\ ~Has(storage, KeyAdmin)
            => /\ DOMAIN storage = {}
               /\ last'.op \in Privileged
                    => (last'.result = MissingValue /\ storage' = storage)
       /\ DOMAIN storage' # {} => Has(storage', KeyAdmin)
      ]_vars

\* A mint_nft was attempted before any initialize.
C19_Witness ==
    /\ last.op = "mint_nft"
    /\ last.result = MissingValue
    /\ ~Has(storage, KeyAdmin)
    /\ ~Has(before, KeyAdmin)

\* C20 (initialization is unguarded): on a store with no admin, initialize
\* succeeds for every caller and every admin argument, stores exactly that
\* argument under Admin and changes nothing else.
C20_InitializeUnguarded ==
    [][(last'.op = "initialize" /\ ~Has(storage, KeyAdmin))
         => /\ last'.result = Ok
            /\ Admin(storage') = Some(last'.user)
            /\ DOMAIN storage' = DOMAIN storage \cup {KeyAdmin}
            /\ \A k \in DOMAIN storage : storage'[k] = storage[k]
            /\ timestamp' = timestamp
      ]_vars

\* A caller other than the identity it names has made that identity the
\* admin.
C20_Witness ==
    /\ last.op = "initialize"
    /\ last.result = Ok
    /\ last.caller # last.user
    /\ ~Has(before, KeyAdmin)
    /\ Admin(storage) = Some(last.user)

\* The statements executed so far by the latest privileged invocation.
Log == frame.log
Positions == 1..Len(Log)

\* The store the invocation would leave if it ran as one step on frame.entry.
AtomicStorage ==
    IF frame.op = "mint_nft"
    THEN MintStorage(frame.entry, frame.caller, frame.user, frame.args[1],
                     frame.args[2], frame.args[3], timestamp)
    ELSE IF frame.op = "revoke_nft"
    THEN RevokeStorage(frame.entry, frame.caller, frame.user)
    ELSE ReactivateStorage(frame.entry, frame.caller, frame.user)

\* Every precondition check (a read of the store or require_auth) comes
\* before the first write, and no panic follows a write.
ChecksBeforeWrites ==
    \A k \in Positions :
        Kind(Log[k]) = "write"
            => \A j \in Positions :
                 j > k => (Kind(Log[j]) \notin {"read", "auth"} /\ Log[j] # "panic")

\* A finished invocation either returned, with every write of its entry point
\* made and kept, or panicked with no write made and the store as it began.
AllOrNothing ==
    (~Running /\ frame.op \in Privileged)
        => IF frame.result = Ok
           THEN /\ Log[Len(Log)] = "return"
                /\ \A i \in 1..Len(Program(frame.op)) :
                     \E k \in Positions : Log[k] = Program(frame.op)[i]
                /\ storage = AtomicStorage
           ELSE /\ Log[Len(Log)] = "panic"
                /\ \A k \in Positions : Kind(Log[k]) # "write"
                /\ storage = frame.entry
                /\ storage = AtomicStorage

\* C17 as stated (authorization-before-mutation ordering): in each privileged
\* entry point, followed one store access at a time, every access to the
\* store, read or write, comes after the require_auth check; every
\* precondition check comes before the first write; and an invocation commits
\* all its writes or fails before any.
C17_AuthBeforeAnyAccess ==
    /\ \A k \in Positions :
        Kind(Log[k]) \in {"read", "write"}
            => \E j \in Positions : j < k /\ Log[j] = "require_auth"
    /\ ChecksBeforeWrites
    /\ AllOrNothing

\* C17 as amended: the read of the Admin record is the first statement, the
\* require_auth check on the admin it returned is the second, and every
\* other access to the store, read or write, comes after that check; every
\* precondition check comes before the first write; and an invocation commits
\* all its writes or fails before any.
C17_AuthBeforeMutation ==
    /\ \A k \in Positions :
        /\ Log[k] = "get_admin" <=> k = 1
        /\ Log[k] = "require_auth" => k = 2
        /\ (Kind(Log[k]) \in {"read", "write"} /\ Log[k] # "get_admin")
             => \E j \in Positions : j < k /\ Log[j] = "require_auth"
    /\ ChecksBeforeWrites
    /\ AllOrNothing

\* A mint_nft has run to its end, statement by statement, on a store that
\* already held a credential.
C17_Witness ==
    /\ ~Running
    /\ frame.op = "mint_nft"
    /\ frame.result = Ok
    /\ Len(Log) = Len(MintProgram) + 1
    /\ \E other \in Address : Has(frame.entry, KeyOwnerNft(other))
    /\ Has(storage, KeyOwnerNft(frame.user))
====
